---- MODULE Spec2Model ----
(***************************************************************************)
(* Model of src/graph.py: a script that builds a graphviz Digraph (four    *)
(* nodes, three edges) and renders it to architecture_esante.png.          *)
(*                                                                         *)
(* The script is straight-line code, so its state is the position in the   *)
(* file (pc), the Digraph object bound to `dot`, and what the render call  *)
(* touches outside the process: the files of the working directory, the    *)
(* host's ability to write there, to run the Graphviz engine and to start  *)
(* a viewer.  The Digraph methods the script calls are operators; what     *)
(* they do is the behaviour of the graphviz package the script imports on  *)
(* line 1 (statements are appended to the object's body; render saves the  *)
(* DOT source under the file name, runs the engine on it, then opens the   *)
(* viewer).                                                                *)
(*                                                                         *)
(* Two specifications:                                                     *)
(*   Spec     the script, run up to MaxRuns times in the same directory;   *)
(*   SpecApi  the Digraph methods node and edge applied to arbitrary       *)
(*            arguments, up to MaxCalls calls on one object.               *)
(***************************************************************************)
EXTENDS Naturals, Sequences, FiniteSets, TLC

VARIABLES
    pc,         \* next line of graph.py to execute, or "exit0" / "exit1"
    dot,        \* the Digraph object: [comment, body]
    disk,       \* working directory: file name -> content
    host,       \* [writable, renderer, viewer]: what the host allows
    err,        \* the exception that ended the process, "none" if none
    produced,   \* files the engine rendered in this run
    viewed,     \* files a viewer process was spawned for in this run
    runs,       \* number of runs of the script started so far
    disk0,      \* the working directory when this run started
    snapshots,  \* the working directory after each run that exited 0
    calls       \* SpecApi: the method calls made so far, in order

vars == <<pc, dot, disk, host, err, produced, viewed, runs, disk0, snapshots, calls>>

----------------------------------------------------------------------------
(* Bounds *)

MaxRuns == 2
MaxCalls == 3

----------------------------------------------------------------------------
(* Values *)

\* label=None: the edge (or node) carries no label attribute
NoLabel == "None"

\* A file name is the sequence of its dot-separated parts, so that
\* name + "." + format is Append(name, format).
Ext(name, format) == Append(name, format)

NodeStmt(name, label) == [kind |-> "node", name |-> name, label |-> label]
EdgeStmt(tail, head, label) ==
    [kind |-> "edge", tail |-> tail, head |-> head, label |-> label]

IsNode(s) == s.kind = "node"
IsEdge(s) == s.kind = "edge"

\* The node statements and the edge statements of a body, each in body order.
NodeStmts(body) == SelectSeq(body, IsNode)
EdgeStmts(body) == SelectSeq(body, IsEdge)
NodeIds(body) == {body[i].name : i \in {j \in DOMAIN body : IsNode(body[j])}}

----------------------------------------------------------------------------
(* The Digraph methods the script calls *)

\* Digraph(comment=...): an empty graph description
Digraph(comment) == [comment |-> comment, body |-> <<>>]

\* mutant of node: a statement for a name already in the body is replaced
node_overwrite(g, name, label) ==
    IF name \in NodeIds(g.body)
    THEN [g EXCEPT !.body = [i \in DOMAIN @ |->
             IF IsNode(@[i]) /\ @[i].name = name
             THEN NodeStmt(name, label) ELSE @[i]]]
    ELSE [g EXCEPT !.body = Append(@, NodeStmt(name, label))]

\* dot.node(name, label): one node statement appended to the body
node(g, name, label) ==
    [g EXCEPT !.body = Append(@, NodeStmt(name, label))]

\* mutant of edge: an edge whose endpoints were not declared is dropped
edge_validating(g, tail, head, label) ==
    IF {tail, head} \subseteq NodeIds(g.body)
    THEN [g EXCEPT !.body = Append(@, EdgeStmt(tail, head, label))]
    ELSE g

\* dot.edge(tail, head, label=...): one edge statement appended to the body
edge(g, tail, head, label) ==
    [g EXCEPT !.body = Append(@, EdgeStmt(tail, head, label))]

\* mutant of edges: head and tail taken in the wrong order
edges_reversed(g, tail_head_iter) ==
    [g EXCEPT !.body = @ \o [i \in DOMAIN tail_head_iter |->
        EdgeStmt(tail_head_iter[i][2], tail_head_iter[i][1], NoLabel)]]

\* dot.edges(iter): for t, h in iter, a plain (unlabelled) edge t -> h
edges(g, tail_head_iter) ==
    [g EXCEPT !.body = @ \o [i \in DOMAIN tail_head_iter |->
        EdgeStmt(tail_head_iter[i][1], tail_head_iter[i][2], NoLabel)]]

----------------------------------------------------------------------------
(* Files *)

\* What a file holds: something written before the run, the DOT source of a
\* graph, or the engine's rendering of a DOT source in some format.
Stale == [kind |-> "stale"]
Source(g) == [kind |-> "dot", graph |-> g]
Image(src, format) == [kind |-> format, graph |-> src.graph]

\* open(f, 'w') + write: f is created or truncated, the rest is untouched
Write(d, f, c) == [x \in (DOMAIN d) \cup {f} |-> IF x = f THEN c ELSE d[x]]

\* rm f
Remove(d, f) == [x \in (DOMAIN d) \ {f} |-> d[x]]

\* mutant of render: the rendered file is named without the format extension
render_no_ext(g, filename, format, view, h, d) ==
    LET out == filename
        rendered == Write(d, out, Image(Source(g), format))
    IN  IF ~h.writable
        THEN [disk |-> d, err |-> "PermissionError",
              produced |-> {}, viewed |-> {}]
        ELSE IF ~h.renderer
        THEN [disk |-> Write(d, filename, Source(g)), err |-> "ExecutableNotFound",
              produced |-> {}, viewed |-> {}]
        ELSE IF view /\ ~h.viewer
        THEN [disk |-> rendered, err |-> "FileNotFoundError",
              produced |-> {out}, viewed |-> {}]
        ELSE [disk |-> rendered, err |-> "none",
              produced |-> {out}, viewed |-> IF view THEN {out} ELSE {}]

\* mutant of render: the DOT source is deleted after rendering (cleanup=True)
render_cleanup(g, filename, format, view, h, d) ==
    LET saved == Write(d, filename, Source(g))
        out == Ext(filename, format)
        rendered == Remove(Write(saved, out, Image(Source(g), format)), filename)
    IN  IF ~h.writable
        THEN [disk |-> d, err |-> "PermissionError",
              produced |-> {}, viewed |-> {}]
        ELSE IF ~h.renderer
        THEN [disk |-> saved, err |-> "ExecutableNotFound",
              produced |-> {}, viewed |-> {}]
        ELSE IF view /\ ~h.viewer
        THEN [disk |-> rendered, err |-> "FileNotFoundError",
              produced |-> {out}, viewed |-> {}]
        ELSE [disk |-> rendered, err |-> "none",
              produced |-> {out}, viewed |-> IF view THEN {out} ELSE {}]

\* mutant of render: a failed save is swallowed and the call goes on
render_swallow(g, filename, format, view, h, d) ==
    LET saved == IF h.writable THEN Write(d, filename, Source(g)) ELSE d
        out == Ext(filename, format)
        rendered == IF h.writable
                    THEN Write(saved, out, Image(Source(g), format)) ELSE d
    IN  IF ~h.renderer
        THEN [disk |-> saved, err |-> "ExecutableNotFound",
              produced |-> {}, viewed |-> {}]
        ELSE IF view /\ ~h.viewer
        THEN [disk |-> rendered, err |-> "FileNotFoundError",
              produced |-> {out}, viewed |-> {}]
        ELSE [disk |-> rendered, err |-> "none",
              produced |-> {out}, viewed |-> IF view THEN {out} ELSE {}]

\* mutant of render: a missing engine is caught and the call carries on
render_missing_ignored(g, filename, format, view, h, d) ==
    LET saved == Write(d, filename, Source(g))
        out == Ext(filename, format)
        rendered == IF h.renderer
                    THEN Write(saved, out, Image(Source(g), format)) ELSE saved
    IN  IF ~h.writable
        THEN [disk |-> d, err |-> "PermissionError",
              produced |-> {}, viewed |-> {}]
        ELSE IF view /\ ~h.viewer
        THEN [disk |-> rendered, err |-> "FileNotFoundError",
              produced |-> IF h.renderer THEN {out} ELSE {}, viewed |-> {}]
        ELSE [disk |-> rendered, err |-> "none",
              produced |-> IF h.renderer THEN {out} ELSE {},
              viewed |-> IF view THEN {out} ELSE {}]

\* mutant of render: an existing output is kept and a numbered copy written
render_versioned(g, filename, format, view, h, d) ==
    LET saved == Write(d, filename, Source(g))
        plain == Ext(filename, format)
        out == IF plain \in DOMAIN d
               THEN Ext(Ext(filename, "1"), format) ELSE plain
        rendered == Write(saved, out, Image(Source(g), format))
    IN  IF ~h.writable
        THEN [disk |-> d, err |-> "PermissionError",
              produced |-> {}, viewed |-> {}]
        ELSE IF ~h.renderer
        THEN [disk |-> saved, err |-> "ExecutableNotFound",
              produced |-> {}, viewed |-> {}]
        ELSE IF view /\ ~h.viewer
        THEN [disk |-> rendered, err |-> "FileNotFoundError",
              produced |-> {out}, viewed |-> {}]
        ELSE [disk |-> rendered, err |-> "none",
              produced |-> {out}, viewed |-> IF view THEN {out} ELSE {}]

\* dot.render(filename, format=..., view=...)
\*   1. save: the DOT source is written to `filename` (PermissionError when
\*      the directory cannot be written);
\*   2. the engine renders it to filename + "." + format (ExecutableNotFound
\*      when the engine is not installed);
\*   3. view=True: a viewer process is spawned for the rendered file
\*      (FileNotFoundError when the host has no launcher);
\* an exception ends the call where it is raised: nothing is undone.
render(g, filename, format, view, h, d) ==
    LET saved == Write(d, filename, Source(g))
        out == Ext(filename, format)
        rendered == Write(saved, out, Image(Source(g), format))
    IN  IF ~h.writable
        THEN [disk |-> d, err |-> "PermissionError",
              produced |-> {}, viewed |-> {}]
        ELSE IF ~h.renderer
        THEN [disk |-> saved, err |-> "ExecutableNotFound",
              produced |-> {}, viewed |-> {}]
        ELSE IF view /\ ~h.viewer
        THEN [disk |-> rendered, err |-> "FileNotFoundError",
              produced |-> {out}, viewed |-> {}]
        ELSE [disk |-> rendered, err |-> "none",
              produced |-> {out}, viewed |-> IF view THEN {out} ELSE {}]

----------------------------------------------------------------------------
(* The script, src/graph.py *)

Comment == "Architecture Blockchain e-Sante"
Filename == <<"architecture_esante">>
Format == "png"
OutFile == Ext(Filename, Format)
OtherFile == <<"notes", "txt">>

Hosts == [writable : BOOLEAN, renderer : BOOLEAN, viewer : BOOLEAN]

\* The working directory before a run: any of the files may already be there.
Disks == UNION {[S -> {Stale}] : S \in SUBSET {Filename, OutFile, OtherFile}}

\* line 3 has run: dot = Digraph(comment=...)
Init ==
    /\ pc = "l5"
    /\ dot = Digraph(Comment)
    /\ disk \in Disks
    /\ disk0 = disk
    /\ host \in Hosts
    /\ err = "none"
    /\ produced = {}
    /\ viewed = {}
    /\ runs = 1
    /\ snapshots = <<>>
    /\ calls = <<>>

\* a statement that only changes the graph
Step(from, to, g) ==
    /\ pc = from
    /\ pc' = to
    /\ dot' = g
    /\ UNCHANGED <<disk, host, err, produced, viewed, runs, disk0, snapshots, calls>>

Line5 == Step("l5", "l6", node(dot, "A", "Microservice medcin"))
Line6 == Step("l6", "l7", node(dot, "B", "Blockchain Node"))
Line7 == Step("l7", "l8", node(dot, "C", "Base de Donnees"))
\* mutant of Line8: the identifier of the line above is reused
Line8_copied_id == Step("l8", "l10", node(dot, "C", "Docker Container"))

Line8 == Step("l8", "l10", node(dot, "D", "Docker Container"))
Line10 == Step("l10", "l11", edges(dot, << <<"A", "B">>, <<"B", "C">> >>))
\* mutant of Line11: the edge points at an identifier no node call declared
Line11_undeclared == Step("l11", "l13", edge(dot, "A", "E", "Dockerized"))

Line11 == Step("l11", "l13", edge(dot, "A", "D", "Dockerized"))

\* line 13, the last statement: the process exits 0 when render returns and
\* 1 with the traceback of the exception it raised.
Line13 ==
    /\ pc = "l13"
    /\ LET r == render(dot, Filename, Format, TRUE, host, disk)
       IN  /\ disk' = r.disk
           /\ err' = r.err
           /\ produced' = r.produced
           /\ viewed' = r.viewed
           /\ pc' = IF r.err = "none" THEN "exit0" ELSE "exit1"
           /\ snapshots' = IF r.err = "none"
                           THEN Append(snapshots, r.disk) ELSE snapshots
    /\ UNCHANGED <<dot, host, runs, disk0, calls>>

Exited == pc \in {"exit0", "exit1"}

\* The script is run again in the same directory: a new process, a new
\* Digraph; the files stay, the host may have changed.
Rerun ==
    /\ Exited
    /\ runs < MaxRuns
    /\ pc' = "l5"
    /\ dot' = Digraph(Comment)
    /\ host' \in Hosts
    /\ err' = "none"
    /\ produced' = {}
    /\ viewed' = {}
    /\ runs' = runs + 1
    /\ disk0' = disk
    /\ UNCHANGED <<disk, snapshots, calls>>

Next ==
    \/ Line5
    \/ Line6
    \/ Line7
    \/ Line8
    \/ Line10
    \/ Line11
    \/ Line13
    \/ Rerun

Spec == Init /\ [][Next]_vars

----------------------------------------------------------------------------
(* The Digraph methods on arbitrary arguments *)

Ids == {"A", "E"}
Labels == {"X", "Y"}
EdgeLabels == {NoLabel, "L"}

NodeCall(name, label) == [op |-> "node", args |-> <<name, label>>]
EdgeCall(tail, head, label) == [op |-> "edge", args |-> <<tail, head, label>>]

InitApi ==
    /\ pc = "api"
    /\ dot = Digraph(Comment)
    /\ calls = <<>>
    /\ disk = <<>>
    /\ disk0 = <<>>
    /\ host = [writable |-> TRUE, renderer |-> TRUE, viewer |-> TRUE]
    /\ err = "none"
    /\ produced = {}
    /\ viewed = {}
    /\ runs = 1
    /\ snapshots = <<>>

ApiNode ==
    \E name \in Ids, label \in Labels :
        /\ pc = "api"
        /\ Len(calls) < MaxCalls
        /\ dot' = node(dot, name, label)
        /\ calls' = Append(calls, NodeCall(name, label))
        /\ UNCHANGED <<pc, disk, host, err, produced, viewed, runs, disk0, snapshots>>

ApiEdge ==
    \E tail \in Ids, head \in Ids, label \in EdgeLabels :
        /\ pc = "api"
        /\ Len(calls) < MaxCalls
        /\ dot' = edge(dot, tail, head, label)
        /\ calls' = Append(calls, EdgeCall(tail, head, label))
        /\ UNCHANGED <<pc, disk, host, err, produced, viewed, runs, disk0, snapshots>>

NextApi ==
    \/ ApiNode
    \/ ApiEdge

SpecApi == InitApi /\ [][NextApi]_vars

----------------------------------------------------------------------------
(* Properties of the script (Spec) *)

\* the four add_node calls of lines 5-8 have run
NodesAdded == pc \in {"l10", "l11", "l13", "exit0", "exit1"}
\* the edge calls of lines 10-11 have run too
EdgesAdded == pc \in {"l13", "exit0", "exit1"}

\* the files whose presence or content differs from the start of the run
Changed == {f \in (DOMAIN disk) \cup (DOMAIN disk0) :
               \/ f \notin DOMAIN disk
               \/ f \notin DOMAIN disk0
               \/ disk[f] # disk0[f]}

\* C1: once lines 5-8 have run the graph holds exactly the four nodes A, B,
\* C, D, each with the label it was added with, and neither the edge calls
\* nor render change that.
C1_FourNodes ==
    NodesAdded =>
        /\ NodeStmts(dot.body) = << NodeStmt("A", "Microservice medcin"),
                                    NodeStmt("B", "Blockchain Node"),
                                    NodeStmt("C", "Base de Donnees"),
                                    NodeStmt("D", "Docker Container") >>
        /\ Cardinality(NodeIds(dot.body)) = 4

C1_Witness ==
    /\ Exited
    /\ Len(EdgeStmts(dot.body)) = 3
    /\ Len(NodeStmts(dot.body)) = 4

\* C2: once lines 10-11 have run the graph holds exactly three directed
\* edges, in this order: A -> B and B -> C without a label, A -> D labelled
\* Dockerized; none is reversed and there is no other.
C2_ThreeEdges ==
    EdgesAdded =>
        EdgeStmts(dot.body) = << EdgeStmt("A", "B", NoLabel),
                                 EdgeStmt("B", "C", NoLabel),
                                 EdgeStmt("A", "D", "Dockerized") >>

C2_Witness ==
    /\ pc = "l13"
    /\ Len(EdgeStmts(dot.body)) = 3

\* C4 as stated: with the engine installed and the directory writable,
\* render does not raise, architecture_esante.png exists and the exit
\* status is 0.
C4_Original ==
    (Exited /\ host.writable /\ host.renderer) =>
        /\ pc = "exit0"
        /\ err = "none"
        /\ OutFile \in DOMAIN disk

\* C4 amended: with the engine installed and the directory writable, the
\* file architecture_esante.png (base name, then ".png") exists when render
\* ends and holds the rendering of the graph; render returns and the exit
\* status is 0 exactly when the host can also start the viewer that
\* view=True asks for, otherwise the viewer's launch error ends the process
\* with status 1.
C4_RenderedPng ==
    (Exited /\ host.writable /\ host.renderer) =>
        /\ OutFile = <<"architecture_esante", "png">>
        /\ OutFile \in DOMAIN disk
        /\ disk[OutFile] = Image(Source(dot), "png")
        /\ produced = {OutFile}
        /\ host.viewer => (pc = "exit0" /\ err = "none" /\ viewed = {OutFile})
        /\ ~host.viewer => (pc = "exit1" /\ err = "FileNotFoundError")

C4_Witness ==
    /\ pc = "exit0"
    /\ host.writable /\ host.renderer /\ host.viewer
    /\ OutFile \in DOMAIN disk
    /\ OutFile \notin DOMAIN disk0

\* C5 as stated: after a run that exits 0, the rendered output file is the
\* only file the run created or changed.
C5_Original ==
    pc = "exit0" => Changed \subseteq {OutFile}

\* C5 amended: after a run that exits 0, two files of the run are on disk,
\* the rendered output architecture_esante.png and the DOT source
\* architecture_esante it was rendered from; the run created or changed no
\* file but these two, and removed none.
C5_TwoFiles ==
    pc = "exit0" =>
        /\ Changed \subseteq {Filename, OutFile}
        /\ {Filename, OutFile} \subseteq DOMAIN disk
        /\ disk[Filename] = Source(dot)
        /\ disk[OutFile] = Image(Source(dot), Format)

C5_Witness ==
    /\ pc = "exit0"
    /\ OtherFile \in DOMAIN disk
    /\ Filename \notin DOMAIN disk0

\* C6: when the directory is not writable the run ends with the write
\* failure, uncaught: exit status 1, no file created or changed, nothing
\* reported as rendered, no viewer, and the run is not a successful one.
C6_WriteFailure ==
    (Exited /\ ~host.writable) =>
        /\ pc = "exit1"
        /\ err = "PermissionError"
        /\ Changed = {}
        /\ produced = {}
        /\ viewed = {}

C6_Witness ==
    /\ pc = "exit1"
    /\ ~host.writable
    /\ host.renderer

\* C7 as stated: when the engine is not installed, render fails with the
\* missing-renderer condition, the exit status is non-zero, no image is
\* produced and no viewer is opened.
C7_Original ==
    (Exited /\ ~host.renderer) =>
        /\ pc = "exit1"
        /\ err = "ExecutableNotFound"
        /\ produced = {}
        /\ viewed = {}

\* C7 amended: when the engine is not installed, render raises, nothing
\* catches it, the exit status is non-zero, no image is produced and no
\* viewer is opened; the exception is the missing-renderer one when the DOT
\* source could be saved, and the write failure of the save, which comes
\* first, when it could not.
C7_MissingRenderer ==
    (Exited /\ ~host.renderer) =>
        /\ pc = "exit1"
        /\ err = IF host.writable THEN "ExecutableNotFound" ELSE "PermissionError"
        /\ produced = {}
        /\ viewed = {}
        /\ OutFile \notin Changed

C7_Witness ==
    /\ pc = "exit1"
    /\ ~host.renderer
    /\ host.writable
    /\ host.viewer

\* C8: rendering the same graph again under the same name overwrites: the
\* directory after every successful run is the same, whatever it held
\* before the first, and the output holds the rendering of the graph alone.
C8_Idempotent ==
    /\ \A i, j \in DOMAIN snapshots : snapshots[i] = snapshots[j]
    /\ pc = "exit0" =>
          /\ snapshots[Len(snapshots)] = disk
          /\ disk[OutFile] = Image(Source(dot), Format)

C8_Witness ==
    /\ Len(snapshots) >= 2
    /\ pc = "exit0"

\* C9: when the script calls render, the tail and the head of every edge
\* are among the declared nodes A, B, C, D, and every node statement comes
\* before every edge statement.
C9_EdgesReferenceNodes ==
    LET body == dot.body IN
    /\ pc = "l13" =>
          /\ NodeIds(body) = {"A", "B", "C", "D"}
          /\ \A i \in DOMAIN body :
                IsEdge(body[i]) =>
                    body[i].tail \in NodeIds(body) /\ body[i].head \in NodeIds(body)
    /\ \A i, j \in DOMAIN body :
          (IsEdge(body[i]) /\ IsNode(body[j])) => j < i

C9_Witness ==
    /\ pc = "l13"
    /\ Len(EdgeStmts(dot.body)) = 3

----------------------------------------------------------------------------
(* Properties of the Digraph methods (SpecApi) *)

IsNodeCall(c) == c.op = "node"
IsEdgeCall(c) == c.op = "edge"

\* the labels of the node statements for `name`, in body order
StmtLabels(body, name) ==
    LET q == SelectSeq(body, LAMBDA st : IsNode(st) /\ st.name = name)
    IN  [i \in DOMAIN q |-> q[i].label]

\* the labels node() was called with for `name`, in call order
CallLabels(name) ==
    LET q == SelectSeq(calls, LAMBDA c : IsNodeCall(c) /\ c.args[1] = name)
    IN  [i \in DOMAIN q |-> q[i].args[2]]

CalledIds == {calls[i].args[1] : i \in {j \in DOMAIN calls : IsNodeCall(calls[j])}}

\* C3 as stated: the graph holds a single node entry for each identifier
\* added, carrying the label of the last add_node call for it.
C3_Original ==
    \A name \in CalledIds :
        /\ Len(StmtLabels(dot.body, name)) = 1
        /\ StmtLabels(dot.body, name)[1] = CallLabels(name)[Len(CallLabels(name))]

\* C3 amended: add_node with an identifier already present does not replace
\* the earlier entry but appends another node statement: the graph holds
\* one statement per call, in call order, so the last statement for the
\* identifier carries the label of the last call (Y after X then Y); the
\* number of distinct identifiers does not grow.
C3_LastWriteLast ==
    /\ NodeIds(dot.body) = CalledIds
    /\ \A name \in Ids :
          /\ StmtLabels(dot.body, name) = CallLabels(name)
          /\ name \in CalledIds =>
                StmtLabels(dot.body, name)[Len(StmtLabels(dot.body, name))]
                    = CallLabels(name)[Len(CallLabels(name))]

C3_Witness ==
    /\ CallLabels("A") = <<"X", "Y">>
    /\ StmtLabels(dot.body, "A") = <<"X", "Y">>
    /\ Cardinality(NodeIds(dot.body)) = 1

\* C10: add_edge validates nothing: every call, whether or not its
\* endpoints were passed to add_node, appends exactly one edge (tail, head,
\* label), and the declared nodes are those of the add_node calls only.
C10_EdgeUnvalidated ==
    LET edgeCalls == SelectSeq(calls, IsEdgeCall)
        nodeCalls == SelectSeq(calls, IsNodeCall)
    IN  /\ EdgeStmts(dot.body) = [i \in DOMAIN edgeCalls |->
              EdgeStmt(edgeCalls[i].args[1], edgeCalls[i].args[2], edgeCalls[i].args[3])]
        /\ NodeStmts(dot.body) = [i \in DOMAIN nodeCalls |->
              NodeStmt(nodeCalls[i].args[1], nodeCalls[i].args[2])]
        /\ Len(dot.body) = Len(calls)

C10_Witness ==
    /\ NodeIds(dot.body) = {"A"}
    /\ \E i \in DOMAIN dot.body :
          /\ IsEdge(dot.body[i])
          /\ dot.body[i].tail = "A"
          /\ dot.body[i].head = "E"

====
